---- MODULE Spec2Model ----
(***************************************************************************)
(* lang-news: the HTML-to-Markdown content extractor.                      *)
(*                                                                         *)
(* The repository holds two copies of htmlToMarkdown: the exported one of  *)
(* scrapers/common.ts and the private one of scrapers/haskell-scraper.ts.  *)
(* They differ only in the text-node rule.  The variable impl says which   *)
(* copy is running.  One behaviour of the model is one call of             *)
(* htmlToMarkdown(element): every step is one iteration of its for loop    *)
(* over element.childNodes, recursive calls are evaluated by the operator  *)
(* htmlToMarkdown.                                                         *)
(* ScraperSpec follows main of haskell-scraper.ts over the archive page    *)
(* and the files of the output directory, one run after the other;         *)
(* ConcurrentSpec starts two runs together; ArchiveSpec stops after the     *)
(* archive page is parsed.                                                 *)
(*                                                                         *)
(* Strings are sequences of one-character strings; the grave accent, which *)
(* a TLA+ string cannot hold, is the token Backtick.                       *)
(***************************************************************************)
EXTENDS Integers, Sequences, FiniteSets

VARIABLES
    impl,       \* which copy runs: "common" (called directly) or "scraper"
                \* (called by extractArticleContent)
    doc,        \* extractArticleContent: what the parser made of the html
    element,    \* htmlToMarkdown: the element parameter
    idx,        \* htmlToMarkdown: the child the loop is at
    markdown,   \* htmlToMarkdown: the buffer
    pc,         \* where the run is
    result,     \* what htmlToMarkdown returned
    cleaned,    \* extractArticleContent: the local cleaned
    content,    \* what extractArticleContent returned
    calls,      \* calls of htmlToMarkdown made so far
    archive,    \* the entries of the archive page the blog serves
    files,      \* the files of the output directory, by path
    articles,   \* main, by run: what fetchBlogArchive returned
    step,       \* main, by run: where the run is
    cur,        \* main, by run: the article the loop is at
    body,       \* generateArticleFile, by run: the local content
    exitCode,   \* by run: the exit code of the process
    log         \* by run: the console lines that name a file or end the run

\* the variables of the scraper runs
scVars == <<archive, files, articles, step, cur, body, exitCode, log>>

vars ==
    <<impl, doc, element, idx, markdown, pc, result, cleaned, content, calls,
      scVars>>

(***************************************************************************)
(* Bounds of the inputs                                                    *)
(***************************************************************************)
\* longest text of a lone text node
MaxLen == 4
\* most children of an element of the generated trees
MaxKids == 3
\* most calls of htmlToMarkdown one caller makes on the same element
MaxCalls == 2
\* most entries of an archive page
MaxEntries == 2
\* most runs of the scraper over one output directory
MaxRuns == 2

(***************************************************************************)
(* JavaScript strings                                                      *)
(***************************************************************************)
\* the character U+0060
Backtick == "<backtick>"

\* the characters \s matches, among those the inputs use
IsSpace(c) == c \in {" ", "\n", "\t"}

RECURSIVE trimStart(_)
trimStart(s) ==
    IF s = <<>> THEN <<>>
    ELSE IF IsSpace(Head(s)) THEN trimStart(Tail(s)) ELSE s

RECURSIVE trimEnd(_)
trimEnd(s) ==
    IF s = <<>> THEN <<>>
    ELSE IF IsSpace(s[Len(s)]) THEN trimEnd(SubSeq(s, 1, Len(s) - 1)) ELSE s

\* String.prototype.trim
trim(s) == trimEnd(trimStart(s))

\* s.replace(/\s+/g, " "): every maximal run of whitespace becomes one space
RECURSIVE replaceWs(_)
replaceWs(s) ==
    IF s = <<>> THEN <<>>
    ELSE IF IsSpace(Head(s)) THEN <<" ">> \o replaceWs(trimStart(s))
    ELSE <<Head(s)>> \o replaceWs(Tail(s))

(***************************************************************************)
(* DOM nodes                                                               *)
(***************************************************************************)
TEXT_NODE == 3
ELEMENT_NODE == 1

\* an attribute value that may be missing: <<>> is null, <<v>> is the value v
Null == <<>>
Some(v) == <<v>>

Text(t) ==
    [nodeType |-> TEXT_NODE, tagName |-> "#text", href |-> Null,
     childNodes |-> <<>>, data |-> t, noText |-> FALSE, className |-> ""]

\* a node that is neither text nor element: a comment (nodeType 8)
Comment(t) ==
    [nodeType |-> 8, tagName |-> "#comment", href |-> Null,
     childNodes |-> <<>>, data |-> t, noText |-> FALSE, className |-> ""]

Elem(tag, kids) ==
    [nodeType |-> ELEMENT_NODE, tagName |-> tag, href |-> Null,
     childNodes |-> kids, data |-> <<>>, noText |-> FALSE, className |-> ""]

Anchor(h, kids) ==
    [nodeType |-> ELEMENT_NODE, tagName |-> "A", href |-> h,
     childNodes |-> kids, data |-> <<>>, noText |-> FALSE, className |-> ""]

\* Node.textContent: a text node's data; for an element the concatenation of
\* the textContent of its children, comments left out
RECURSIVE textContent(_)
textContent(node) ==
    IF node.nodeType # ELEMENT_NODE THEN node.data
    ELSE LET  RECURSIVE cat(_)
             cat(kids) ==
                 IF kids = <<>> THEN <<>>
                 ELSE (IF Head(kids).nodeType \notin {TEXT_NODE, ELEMENT_NODE} THEN <<>>
                       ELSE textContent(Head(kids))) \o cat(Tail(kids))
         IN cat(node.childNodes)

\* a node object whose textContent property is null or undefined
NoText(n) == [n EXCEPT !.noText = TRUE]

\* node.textContent?.trim(): undefined (Null) when the property is missing
optTrim(n) == IF n.noText THEN Null ELSE Some(trim(textContent(n)))

\* `${v}` in a template literal: undefined is spelled out
interpolate(v) ==
    IF v = Null THEN <<"u", "n", "d", "e", "f", "i", "n", "e", "d">> ELSE v[1]

\* v || ""
orEmpty(v) == IF v = Null THEN <<>> ELSE v[1]

\* the attribute read without its || "" default
getHrefNoDefault(el) ==
    IF el.href = Null THEN <<"n", "u", "l", "l">> ELSE el.href[1]

\* el.getAttribute("href") || ""
getHref(el) == IF el.href = Null THEN <<>> ELSE el.href[1]

\* el.tagName.toLowerCase(); the DOM reports HTML tag names in upper case
toLowerCase(tag) ==
    CASE tag = "H1" -> "h1" [] tag = "H2" -> "h2" [] tag = "H3" -> "h3"
      [] tag = "H4" -> "h4" [] tag = "P" -> "p" [] tag = "A" -> "a"
      [] tag = "STRONG" -> "strong" [] tag = "B" -> "b" [] tag = "EM" -> "em"
      [] tag = "I" -> "i" [] tag = "CODE" -> "code" [] tag = "PRE" -> "pre"
      [] tag = "UL" -> "ul" [] tag = "OL" -> "ol" [] tag = "LI" -> "li"
      [] tag = "BR" -> "br" [] tag = "IMG" -> "img" [] tag = "VIDEO" -> "video"
      [] tag = "SCRIPT" -> "script" [] tag = "STYLE" -> "style"
      [] tag = "SPAN" -> "span" [] tag = "DIV" -> "div"
      [] tag = "BLOCKQUOTE" -> "blockquote" [] tag = "ARTICLE" -> "article"
      [] OTHER -> tag

(***************************************************************************)
(* The rules of htmlToMarkdown, one per branch                             *)
(***************************************************************************)
HeadingTags == {"h1", "h2", "h3", "h4"}
StrongTags == {"strong", "b"}
EmTags == {"em", "i"}
ListTags == {"ul", "ol"}
SkipTags == {"img", "video", "script", "style"}
RuleTags ==
    HeadingTags \cup StrongTags \cup EmTags \cup ListTags \cup SkipTags
        \cup {"p", "a", "code", "pre", "li", "br", "span"}

\* the text trimmed before its runs are collapsed
TextCommonTrimmed(node) ==
    LET text == node.data
    IN IF trim(text) # <<>> THEN replaceWs(trim(text)) ELSE <<>>

\* common.ts: text nodes
TextCommon(node) ==
    LET text == IF node.noText THEN <<>> ELSE node.data
    IN IF trim(text) # <<>> THEN replaceWs(text) ELSE <<>>

\* haskell-scraper.ts: text nodes
TextScraperNoSpace(node) ==
    LET text == optTrim(node)
    IN IF text # Null /\ text[1] # <<>> THEN text[1] ELSE <<>>

TextScraper(node) ==
    LET text == optTrim(node)
    IN IF text # Null /\ text[1] # <<>> THEN text[1] \o <<" ">> ELSE <<>>

TextMd(im, node) ==
    IF im = "common" THEN TextCommon(node) ELSE TextScraper(node)

\* the '#' marks of the heading's template literal
HeadingMarks(el) ==
    LET tag == toLowerCase(el.tagName)
    IN CASE tag = "h1" -> <<"#">>
         [] tag = "h2" -> <<"#", "#">>
         [] tag = "h3" -> <<"#", "#", "#">>
         [] tag = "h4" -> <<"#", "#", "#", "#">>

\* a heading rule that leaves the text untrimmed
HeadingMdUntrimmed(el) ==
    <<"\n">> \o HeadingMarks(el) \o <<" ">> \o textContent(el) \o <<"\n", "\n">>

\* case "h1" .. "h4"
HeadingMd(el) ==
    <<"\n">> \o HeadingMarks(el) \o <<" ">> \o interpolate(optTrim(el))
        \o <<"\n", "\n">>

\* a paragraph rule without the emptiness test
ParagraphMdAlways(inner) == trim(inner) \o <<"\n", "\n">>

\* case "p", given htmlToMarkdown(el)
ParagraphMd(inner) ==
    LET pContent == trim(inner)
    IN IF pContent # <<>> THEN pContent \o <<"\n", "\n">> ELSE <<>>

\* case "a"
AnchorMd(el) ==
    LET href == getHref(el)
        text == orEmpty(optTrim(el))
    IN <<"[">> \o text \o <<"]", "(">> \o href \o <<")">>

\* case "strong", "b"
StrongMd(el) == <<"*", "*">> \o interpolate(optTrim(el)) \o <<"*", "*">>

\* case "em", "i"
EmMd(el) == <<"*">> \o interpolate(optTrim(el)) \o <<"*">>

\* a code rule that leaves the text untrimmed
CodeMdUntrimmed(el) == <<Backtick>> \o textContent(el) \o <<Backtick>>

\* case "code"
CodeMd(el) == <<Backtick>> \o interpolate(optTrim(el)) \o <<Backtick>>

\* a pre rule with one newline after the closing fence
PreMdOneBreak(el) ==
    <<"\n", Backtick, Backtick, Backtick, "\n">> \o trim(textContent(el))
        \o <<"\n", Backtick, Backtick, Backtick, "\n">>

\* case "pre"
PreMd(el) ==
    <<"\n", Backtick, Backtick, Backtick, "\n">> \o interpolate(optTrim(el))
        \o <<"\n", Backtick, Backtick, Backtick, "\n", "\n">>

\* a list rule without the leading newline
ListMdNoBreak(inner) == inner

\* case "ul", "ol", given htmlToMarkdown(el)
ListMd(inner) == <<"\n">> \o inner

\* a list item rule with the emptiness test of the paragraph rule
ListItemMdSkipEmpty(inner) ==
    IF trim(inner) # <<>> THEN <<"-", " ">> \o trim(inner) \o <<"\n">> ELSE <<>>

\* case "li", given htmlToMarkdown(el)
ListItemMd(inner) == <<"-", " ">> \o trim(inner) \o <<"\n">>

\* case "br"
BrMd == <<"\n">>

\* case "img", "video", "script", "style", "span", given htmlToMarkdown(el)
SkipOrSpanMd(tag, inner) == IF tag = "span" THEN inner ELSE <<>>

\* a default rule that skips the element
DefaultMdSkip(inner) == <<>>

\* default, given htmlToMarkdown(el)
DefaultMd(inner) == inner

RECURSIVE htmlToMarkdown(_, _)

\* one iteration of the loop body: what the child node adds to markdown
NodeMd(im, node) ==
    IF node.nodeType = TEXT_NODE THEN TextMd(im, node)
    ELSE IF node.nodeType = ELEMENT_NODE THEN
        LET tag == toLowerCase(node.tagName)
        IN CASE tag \in HeadingTags -> HeadingMd(node)
             [] tag = "p" -> ParagraphMd(htmlToMarkdown(im, node))
             [] tag = "a" -> AnchorMd(node)
             [] tag \in StrongTags -> StrongMd(node)
             [] tag \in EmTags -> EmMd(node)
             [] tag = "code" -> CodeMd(node)
             [] tag = "pre" -> PreMd(node)
             [] tag \in ListTags -> ListMd(htmlToMarkdown(im, node))
             [] tag = "li" -> ListItemMd(htmlToMarkdown(im, node))
             [] tag = "br" -> BrMd
             [] tag \in SkipTags \cup {"span"} ->
                    SkipOrSpanMd(tag, IF tag = "span"
                                      THEN htmlToMarkdown(im, node) ELSE <<>>)
             [] OTHER -> DefaultMd(htmlToMarkdown(im, node))
    ELSE <<>>

RECURSIVE forLoopReversed(_, _, _)
forLoopReversed(im, kids, acc) ==
    IF kids = <<>> THEN acc
    ELSE forLoopReversed(im, Tail(kids), NodeMd(im, Head(kids)) \o acc)

RECURSIVE forLoop(_, _, _)
forLoop(im, kids, acc) ==
    IF kids = <<>> THEN acc
    ELSE forLoop(im, Tail(kids), acc \o NodeMd(im, Head(kids)))

htmlToMarkdown(im, el) == forLoop(im, el.childNodes, <<>>)

(***************************************************************************)
(* The documents the extractor is run on                                   *)
(***************************************************************************)
SeqsUpTo(S, n) == UNION {[1..k -> S] : k \in 0..n}

AllTags ==
    {"H1", "H2", "H3", "H4", "P", "A", "STRONG", "B", "EM", "I", "CODE", "PRE",
     "UL", "OL", "LI", "BR", "IMG", "VIDEO", "SCRIPT", "STYLE", "SPAN", "DIV",
     "BLOCKQUOTE"}

Chars == {"a", "b", " ", "\n"}

SmallTexts == {<<"a">>, <<" ">>, <<" ", "b", " ">>}

Leaves == {Text(t) : t \in SmallTexts} \cup {Elem("IMG", <<>>)}

\* the parser gives these elements no children
VoidTags == {"IMG", "BR"}

\* elements of every tag over at most n leaves
ElemsOver(n) ==
    {Elem(tag, kids) : tag \in AllTags \ VoidTags, kids \in SeqsUpTo(Leaves, n)}
        \cup {Elem(tag, <<>>) : tag \in VoidTags}
        \cup {Anchor(Some(<<"/", "x">>), kids) : kids \in SeqsUpTo(Leaves, n)}

\* elements of every tag around one element of every tag
Nested == {Elem(tag, <<n>>) : tag \in AllTags, n \in ElemsOver(1)}

Title == <<"T", "i", "t", "l", "e">>
Click == <<"C", "l", "i", "c", "k">>
Hello == <<"H", "e", "l", "l", "o", " ">>
World == <<"W", "o", "r", "l", "d">>

ExampleKids ==
    { <<Elem("H2", <<Text(Title)>>)>>,
      <<Anchor(Some(<<"/", "x">>), <<Text(Click)>>)>>,
      <<Anchor(Null, <<Text(Click)>>)>>,
      <<Elem("UL", <<Elem("LI", <<Text(<<"A">>)>>),
                     Elem("LI", <<Text(<<"B">>)>>)>>)>>,
      <<Elem("P", <<Text(Hello), Elem("STRONG", <<Text(World)>>)>>)>>,
      <<Text(<<"a">>), Comment(<<"c">>), Elem("BR", <<>>), Text(<<"b">>)>>,
      <<Elem("PRE", <<Elem("CODE", <<Text(<<"a", "\n", "b">>)>>)>>)>> }

Inputs ==
    {Elem("ARTICLE", <<Text(t)>>) : t \in SeqsUpTo(Chars, MaxLen)}
        \cup {Elem("ARTICLE", <<n>>) : n \in ElemsOver(MaxKids) \cup Nested}
        \cup {Elem("ARTICLE", kids) :
                 kids \in SeqsUpTo(Leaves \cup {Comment(<<"c">>)}, MaxKids)}
        \cup {Elem("ARTICLE", kids) : kids \in ExampleKids}

(***************************************************************************)
(* extractArticleContent: the caller of the scraper's copy                 *)
(***************************************************************************)
\* the length limit of the content
LIMIT == 3000

\* the truncation notice
Notice ==
    <<"\n", "\n", ".", ".", ".", "\n", "\n", "*", "C", "o", "n", "t", "e",
      "n", "t", " ", "t", "r", "u", "n", "c", "a", "t", "e", "d", ".", " ",
      "P", "l", "e", "a", "s", "e", " ", "v", "i", "s", "i", "t", " ", "t",
      "h", "e", " ", "o", "r", "i", "g", "i", "n", "a", "l", " ", "a", "r",
      "t", "i", "c", "l", "e", " ", "f", "o", "r", " ", "t", "h", "e", " ",
      "f", "u", "l", "l", " ", "p", "o", "s", "t", ".", "*">>

\* the fallback sentence
Fallback ==
    <<"C", "o", "n", "t", "e", "n", "t", " ", "n", "o", "t", " ", "a", "v",
      "a", "i", "l", "a", "b", "l", "e", ".", " ", "P", "l", "e", "a", "s",
      "e", " ", "v", "i", "s", "i", "t", " ", "t", "h", "e", " ", "o", "r",
      "i", "g", "i", "n", "a", "l", " ", "a", "r", "t", "i", "c", "l", "e",
      " ", "f", "o", "r", " ", "f", "u", "l", "l", " ", "d", "e", "t", "a",
      "i", "l", "s", ".">>

\* parser.parseFromString(html, "text/html") and doc.querySelector("article")
ParseFailed == [parsed |-> FALSE, article |-> Null]
NoArticle == [parsed |-> TRUE, article |-> Null]
WithArticle(a) == [parsed |-> TRUE, article |-> Some(a)]

\* <span class="s95">
Span95(kids) == [Elem("SPAN", kids) EXCEPT !.className = "s95"]

\* the selectors "h1" and "span.s95"
matches(n, sel) ==
    /\ n.nodeType = ELEMENT_NODE
    /\ IF sel = "h1" THEN toLowerCase(n.tagName) = "h1"
       ELSE toLowerCase(n.tagName) = "span" /\ n.className = "s95"

RECURSIVE holds(_, _)
holds(n, sel) ==
    \E i \in 1..Len(n.childNodes) :
        matches(n.childNodes[i], sel) \/ holds(n.childNodes[i], sel)

removeNone(n, sel) == n

\* const x = article.querySelector(sel); if (x) x.remove(): the first match
\* in document order leaves the tree
RECURSIVE removeFirst(_, _)
removeFirst(n, sel) ==
    IF ~holds(n, sel) THEN n
    ELSE LET kids == n.childNodes
             i == CHOOSE k \in 1..Len(kids) :
                      /\ matches(kids[k], sel) \/ holds(kids[k], sel)
                      /\ \A j \in 1..(k - 1) :
                             ~(matches(kids[j], sel) \/ holds(kids[j], sel))
         IN IF matches(kids[i], sel)
            THEN [n EXCEPT !.childNodes =
                     SubSeq(kids, 1, i - 1) \o SubSeq(kids, i + 1, Len(kids))]
            ELSE [n EXCEPT !.childNodes[i] = removeFirst(kids[i], sel)]

\* s.replace(/\n\n\n+/g, "\n\n")
RECURSIVE replaceNewlines(_)
replaceNewlines(s) ==
    LET nl(i) == s[i] = "\n"
        starts == {i \in 1..(Len(s) - 2) : nl(i) /\ nl(i + 1) /\ nl(i + 2)}
    IN IF starts = {} THEN s
       ELSE LET i == CHOOSE k \in starts : \A m \in starts : k <= m
                j == CHOOSE k \in (i + 2)..Len(s) :
                         /\ \A m \in (i + 2)..k : nl(m)
                         /\ k = Len(s) \/ ~nl(k + 1)
            IN SubSeq(s, 1, i - 1) \o <<"\n", "\n">>
                   \o replaceNewlines(SubSeq(s, j + 1, Len(s)))

\* s.replace(/\n\s+\n/g, "\n\n"): the leftmost match, \s+ as long as it can be
RECURSIVE replaceBlankLines(_)
replaceBlankLines(s) ==
    LET ends(i) == {e \in (i + 2)..Len(s) :
                       s[e] = "\n" /\ \A m \in (i + 1)..(e - 1) : IsSpace(s[m])}
        starts == {i \in 1..(Len(s) - 2) :
                      s[i] = "\n" /\ IsSpace(s[i + 1]) /\ ends(i) # {}}
    IN IF starts = {} THEN s
       ELSE LET i == CHOOSE k \in starts : \A m \in starts : k <= m
                e == CHOOSE k \in ends(i) : \A m \in ends(i) : m <= k
            IN SubSeq(s, 1, i - 1) \o <<"\n", "\n">>
                   \o replaceBlankLines(SubSeq(s, e + 1, Len(s)))

\* the clean-up of the markdown
cleanUpUntrimmed(md) == replaceBlankLines(replaceNewlines(md))

cleanUp(md) == trim(replaceBlankLines(replaceNewlines(md)))

\* the length limit
limitInclusive(s) == IF Len(s) >= LIMIT THEN SubSeq(s, 1, LIMIT) \o Notice ELSE s

limit(s) == IF Len(s) > LIMIT THEN SubSeq(s, 1, LIMIT) \o Notice ELSE s

\* cleaned || fallback
orFallbackNone(s) == s

orFallback(s) == IF s # <<>> THEN s ELSE Fallback

Ignore == <<"I", "g", "n", "o", "r", "e">>

Filled(n) == Text([i \in 1..n |-> "a"])

\* articles with a title and a metadata span, and articles at the length limit
ArticleKids ==
    { <<Elem("H1", <<Text(Ignore)>>), Span95(<<Text(Ignore)>>),
        Elem("P", <<Text(Hello), Elem("STRONG", <<Text(World)>>)>>)>>,
      <<Elem("IMG", <<>>)>>,
      <<Elem("DIV", <<Elem("H1", <<Text(Title)>>), Elem("H1", <<Text(Title)>>)>>),
        Elem("P", <<Span95(<<Text(<<"a">>)>>), Span95(<<Text(<<"b">>)>>)>>)>>,
      <<Elem("P", <<Text(<<"a">>)>>), Elem("H2", <<Text(<<"b">>)>>),
        Elem("PRE", <<Text(<<"c">>)>>), Text(<<"x", "\n", " ", "\n", " ", "\n", "y">>),
        Elem("BR", <<>>), Elem("BR", <<>>), Elem("P", <<Text(<<"d">>)>>)>>,
      <<Elem("P", <<Text(<<"a">>), Elem("EM", <<Text(<<"b">>)>>)>>),
        Elem("UL", <<Elem("LI", <<Text(<<"A">>)>>), Elem("LI", <<Text(<<"B">>)>>)>>)>>,
      <<Elem("H1", <<Text(Title), Span95(<<Text(<<"m">>)>>)>>),
        Elem("P", <<Span95(<<Text(<<"a">>)>>), Text(<<"b">>)>>)>>,
      <<Elem("P", <<Span95(<<Text(<<"m">>)>>), Text(<<"a">>)>>),
        Elem("DIV", <<Elem("P", <<Text(<<"b">>)>>), Elem("H1", <<Text(Title)>>)>>),
        Elem("H1", <<Text(<<"c">>)>>)>> }

\* articles of one text around the length limit
\* a long text with a line break as its character number LIMIT
Broken == Text([i \in 1..(LIMIT + 2) |-> IF i = LIMIT THEN "\n" ELSE "a"])

LongKids ==
    { <<Filled(LIMIT - 1)>>, <<Filled(LIMIT)>>, <<Filled(LIMIT + 1)>>,
      <<Filled(LIMIT + 2000)>>, <<Broken>> }

\* texts with a stretch of spaces and newlines inside
Gapped ==
    {Text(<<"a">> \o w \o <<"b">>) : w \in SeqsUpTo({" ", "\n"}, MaxLen)}

ShortDocs ==
    {ParseFailed, NoArticle}
        \cup {WithArticle(a) : a \in Inputs}
        \cup {WithArticle(Elem("ARTICLE", <<t>>)) : t \in Gapped}
        \cup {WithArticle(Elem("ARTICLE", kids)) : kids \in ArticleKids}

Docs == ShortDocs \cup {WithArticle(Elem("ARTICLE", kids)) : kids \in LongKids}

\* the element of a run that has not called htmlToMarkdown yet
NoElement == Elem("#none", <<>>)

(***************************************************************************)
(* One run: htmlToMarkdown(element) of common.ts called directly, or       *)
(* extractArticleContent(html) of haskell-scraper.ts                       *)
(***************************************************************************)
InitDirect(inputs) ==
    /\ impl = "common"
    /\ doc = ParseFailed
    /\ element \in inputs
    /\ pc = "loop"
    /\ calls = 1

InitExtract(docs) ==
    /\ impl = "scraper"
    /\ doc \in docs
    /\ element = NoElement
    /\ pc = "parse"
    /\ calls = 0

\* no scraper is running
Runs == 1..MaxRuns

NoScraper ==
    /\ archive = <<>>
    /\ files = <<>>
    /\ articles = [p \in Runs |-> <<>>]
    /\ step = [p \in Runs |-> "none"]
    /\ cur = [p \in Runs |-> 0]
    /\ body = [p \in Runs |-> <<>>]
    /\ exitCode = [p \in Runs |-> 0]
    /\ log = [p \in Runs |-> <<>>]

InitLocals ==
    /\ NoScraper
    /\ idx = 1
    /\ markdown = <<>>
    /\ result = <<>>
    /\ cleaned = <<>>
    /\ content = <<>>

Init == (InitDirect(Inputs) \/ InitExtract(Docs)) /\ InitLocals

\* the calls on the trees of several children and of nested elements, and the
\* extractions of the example documents
TreeInputs ==
    {Elem("ARTICLE", <<n>>) : n \in Nested}
        \cup {Elem("ARTICLE", kids) :
                 kids \in SeqsUpTo(Leaves \cup {Comment(<<"c">>)}, MaxKids)}
        \cup {Elem("ARTICLE", kids) : kids \in ExampleKids}

TreeDocs ==
    {ParseFailed, NoArticle}
        \cup {WithArticle(Elem("ARTICLE", kids)) : kids \in ArticleKids}

InitTrees == (InitDirect(TreeInputs) \/ InitExtract(TreeDocs)) /\ InitLocals

\* node objects without textContent, handed to the exported htmlToMarkdown
NoTextInputs ==
    {Elem("ARTICLE", <<NoText(n)>>) :
        n \in {Text(<<"a">>), Anchor(Some(<<"/", "x">>), <<Text(<<"a">>)>>)}
                \cup {Elem(tag, <<Text(<<"a">>)>>) : tag \in AllTags \ VoidTags}}

InitAnyNode == (InitDirect(Inputs \cup NoTextInputs) \/ InitExtract(Docs)) /\ InitLocals

\* if (!doc) return the fallback sentence
ParseFails ==
    /\ pc = "parse"
    /\ ~doc.parsed
    /\ content' = Fallback
    /\ pc' = "returned"
    /\ UNCHANGED scVars /\ UNCHANGED <<impl, doc, element, idx, markdown, result, cleaned, calls>>

\* if (!article) return the fallback sentence
NoArticleFound ==
    /\ pc = "parse"
    /\ doc.parsed
    /\ doc.article = Null
    /\ content' = Fallback
    /\ pc' = "returned"
    /\ UNCHANGED scVars /\ UNCHANGED <<impl, doc, element, idx, markdown, result, cleaned, calls>>

\* the h1 and the span.s95 are removed, then htmlToMarkdown(article) starts
StripAndCall ==
    /\ pc = "parse"
    /\ doc.parsed
    /\ doc.article # Null
    /\ element' = removeFirst(removeFirst(doc.article[1], "h1"), "span.s95")
    /\ idx' = 1
    /\ markdown' = <<>>
    /\ calls' = calls + 1
    /\ pc' = "loop"
    /\ UNCHANGED scVars /\ UNCHANGED <<impl, doc, result, cleaned, content>>

\* the caller of common.ts calls htmlToMarkdown on the same element again
\* the trees a later call of the same process may be given
Again == {Elem("ARTICLE", kids) : kids \in ExampleKids}

CallAgainKeepsBuffer ==
    /\ pc = "done"
    /\ impl = "common"
    /\ calls < MaxCalls
    /\ element' \in {element} \cup Again
    /\ idx' = 1
    /\ markdown' = markdown
    /\ calls' = calls + 1
    /\ pc' = "loop"
    /\ UNCHANGED scVars /\ UNCHANGED <<impl, doc, result, cleaned, content>>

CallAgain ==
    /\ pc = "done"
    /\ impl = "common"
    /\ calls < MaxCalls
    /\ element' \in {element} \cup Again
    /\ idx' = 1
    /\ markdown' = <<>>
    /\ calls' = calls + 1
    /\ pc' = "loop"
    /\ UNCHANGED scVars /\ UNCHANGED <<impl, doc, result, cleaned, content>>

LoopingButLast == pc = "loop" /\ idx < Len(element.childNodes)

Looping == pc = "loop" /\ idx <= Len(element.childNodes)

node == element.childNodes[idx]

tagName == toLowerCase(node.tagName)

IsElement == Looping /\ node.nodeType = ELEMENT_NODE

\* markdown += s, and on to the next child
EmitOverwrite(s) ==
    /\ markdown' = s
    /\ idx' = idx + 1
    /\ UNCHANGED scVars /\ UNCHANGED <<impl, doc, element, pc, result, cleaned, content, calls>>

Emit(s) ==
    /\ markdown' = markdown \o s
    /\ idx' = idx + 1
    /\ UNCHANGED scVars /\ UNCHANGED <<impl, doc, element, pc, result, cleaned, content, calls>>

TextNode == Looping /\ node.nodeType = TEXT_NODE /\ Emit(TextMd(impl, node))

Heading == IsElement /\ tagName \in HeadingTags /\ Emit(HeadingMd(node))

Paragraph ==
    IsElement /\ tagName = "p" /\ Emit(ParagraphMd(htmlToMarkdown(impl, node)))

AnchorTag == IsElement /\ tagName = "a" /\ Emit(AnchorMd(node))

Strong == IsElement /\ tagName \in StrongTags /\ Emit(StrongMd(node))

Em == IsElement /\ tagName \in EmTags /\ Emit(EmMd(node))

Code == IsElement /\ tagName = "code" /\ Emit(CodeMd(node))

Pre == IsElement /\ tagName = "pre" /\ Emit(PreMd(node))

List ==
    IsElement /\ tagName \in ListTags /\ Emit(ListMd(htmlToMarkdown(impl, node)))

ListItem ==
    IsElement /\ tagName = "li" /\ Emit(ListItemMd(htmlToMarkdown(impl, node)))

Br == IsElement /\ tagName = "br" /\ Emit(BrMd)

SkipOrSpan ==
    /\ IsElement
    /\ tagName \in SkipTags \cup {"span"}
    /\ Emit(SkipOrSpanMd(tagName, IF tagName = "span"
                                  THEN htmlToMarkdown(impl, node) ELSE <<>>))

Default ==
    IsElement /\ tagName \notin RuleTags /\ Emit(DefaultMd(htmlToMarkdown(impl, node)))

\* a node that is neither a text node nor an element adds nothing
OtherNode ==
    Looping /\ node.nodeType \notin {TEXT_NODE, ELEMENT_NODE} /\ Emit(<<>>)

\* return markdown
Return ==
    /\ pc = "loop"
    /\ idx > Len(element.childNodes)
    /\ pc' = "done"
    /\ result' = markdown
    /\ UNCHANGED scVars /\ UNCHANGED <<impl, doc, element, idx, markdown, cleaned, content, calls>>

\* the clean-up of what htmlToMarkdown(article) returned
CleanUp ==
    /\ pc = "done"
    /\ impl = "scraper"
    /\ cleaned' = cleanUp(result)
    /\ pc' = "cleaned"
    /\ UNCHANGED scVars /\ UNCHANGED <<impl, doc, element, idx, markdown, result, content, calls>>

\* if (cleaned.length > 3000) the content is cut and the notice appended
Limit ==
    /\ pc = "cleaned"
    /\ cleaned' = limit(cleaned)
    /\ pc' = "limited"
    /\ UNCHANGED scVars /\ UNCHANGED <<impl, doc, element, idx, markdown, result, content, calls>>

\* return cleaned || the fallback sentence
ReturnContent ==
    /\ pc = "limited"
    /\ content' = orFallback(cleaned)
    /\ pc' = "returned"
    /\ UNCHANGED scVars /\ UNCHANGED <<impl, doc, element, idx, markdown, result, cleaned, calls>>

Next ==
    \/ ParseFails
    \/ NoArticleFound
    \/ StripAndCall
    \/ CallAgain
    \/ TextNode
    \/ Heading
    \/ Paragraph
    \/ AnchorTag
    \/ Strong
    \/ Em
    \/ Code
    \/ Pre
    \/ List
    \/ ListItem
    \/ Br
    \/ SkipOrSpan
    \/ Default
    \/ OtherNode
    \/ Return
    \/ CleanUp
    \/ Limit
    \/ ReturnContent

Spec == Init /\ [][Next]_vars

\* one step of a running call of htmlToMarkdown
Step ==
    \/ TextNode \/ Heading \/ Paragraph \/ AnchorTag \/ Strong \/ Em \/ Code
    \/ Pre \/ List \/ ListItem \/ Br \/ SkipOrSpan \/ Default \/ OtherNode
    \/ Return

\* a running call takes its next step: the loop is sequential code
FairSpec == InitTrees /\ [][Next]_vars /\ WF_vars(Step)

\* the runs of Spec and the direct calls on node objects without textContent
SpecAnyNode == InitAnyNode /\ [][Next]_vars

(***************************************************************************)
(* The scraper: main of haskell-scraper.ts.  One behaviour is one run of   *)
(* the process over an output directory; every step is one awaited call.   *)
(***************************************************************************)
OUTPUT_DIR == <<"s", "r", "c", "/", "a", "r", "t", "i", "c", "l", "e", "s">>
LANGUAGE == <<"h", "a", "s", "k", "e", "l", "l">>
BLOG == 
    <<"h", "t", "t", "p", "s", ":", "/", "/", "b", "l", "o", "g", ".", "h", "a", "s", "k", "e", "l", "l", ".", "o", "r", "g">>
\* .slice(0, 10)
TOP == 10

\* datetime attributes an archive page may carry
Day1 == <<"2", "0", "2", "4", "-", "0", "1", "-", "1", "5">>
Day2 == <<"2", "0", "2", "4", "-", "0", "2", "-", "0", "3">>
Instant == 
    <<"2", "0", "2", "4", "-", "0", "1", "-", "1", "5", "T", "1", "0", ":", "0", "0", ":", "0", "0", "Z">>
Dates == {<<>>, Day1, Day2, Instant}

\* the a and time elements of a "main p" paragraph, Null where it has none
Link(h, t) == Some([href |-> h, text |-> t])
Links == {Link(<<"/", "a">>, <<"T">>), Link(<<"/", "b">>, <<"U">>)}
Times == {Some(d) : d \in Dates \ {<<>>}}

\* paragraphs that lack the link, the href, the title, the time or the datetime
Lacking ==
    {[link |-> l, time |-> Some(Day1)] :
        l \in {Null, Link(<<>>, <<"T">>), Link(<<"/", "a">>, <<" ">>)}}
        \cup {[link |-> Link(<<"/", "a">>, <<"T">>), time |-> t] :
                 t \in {Null, Some(<<>>)}}

Entries == [link : Links, time : Times] \cup Lacking
Archives == SeqsUpTo(Entries, MaxEntries)

\* the pages a whole run is followed on: paragraphs that have everything, or
\* a single paragraph that lacks something
RunArchives ==
    SeqsUpTo([link : Links, time : Times], MaxEntries) \cup {<<e>> : e \in Lacking}

\* the days of one month
Digit(d) == <<"0", "1", "2", "3", "4", "5", "6", "7", "8", "9">>[d + 1]
March(d) ==
    <<"2", "0", "2", "4", "-", "0", "3", "-">> \o <<Digit(d \div 10), Digit(d % 10)>>

\* archive pages of more entries than a run takes, in no order of date: one of
\* a dozen days, one in which a day comes twice and a paragraph has no time
Scattered == <<5, 10, 2, 7, 12, 4, 9, 1, 6, 11, 3, 8>>
LongArchives ==
    { [k \in 1..Len(Scattered) |->
          [link |-> Link(<<"/", "a">>, <<"T">>), time |-> Some(March(Scattered[k]))]],
      [k \in 1..Len(Scattered) |->
          [link |-> Link(<<"/", "b">>, <<"U">>),
           time |-> IF k = 3 THEN Null
                    ELSE Some(March(IF k = 7 THEN 5 ELSE Scattered[k]))]] }

startsWith(s, prefix) ==
    Len(prefix) <= Len(s) /\ SubSeq(s, 1, Len(prefix)) = prefix

\* the Article of one paragraph; content and tags play no part in what
\* follows and are left out
ArticleOf(p) ==
    LET url == p.link[1].href
        title == trim(p.link[1].text)
        datetime == p.time[1]
    IN [title |-> title,
        date |-> datetime,
        url |-> IF startsWith(url, <<"h", "t", "t", "p">>) THEN url ELSE BLOG \o url]

Complete(p) ==
    /\ p.link # Null
    /\ p.time # Null
    /\ p.link[1].href # <<>>
    /\ trim(p.link[1].text) # <<>>
    /\ p.time[1] # <<>>

RECURSIVE push(_)
push(ps) ==
    IF ps = <<>> THEN <<>>
    ELSE (IF Complete(Head(ps)) THEN <<ArticleOf(Head(ps))>> ELSE <<>>)
             \o push(Tail(ps))

\* the order of localeCompare on the characters of the datetime values
Collation ==
    <<"-", ":", "0", "1", "2", "3", "4", "5", "6", "7", "8", "9", "T", "Z">>
rank(c) == CHOOSE k \in 1..Len(Collation) : Collation[k] = c

RECURSIVE localeCompare(_, _)
localeCompare(a, b) ==
    IF a = <<>> /\ b = <<>> THEN 0
    ELSE IF a = <<>> THEN -1
    ELSE IF b = <<>> THEN 1
    ELSE IF rank(Head(a)) < rank(Head(b)) THEN -1
    ELSE IF rank(Head(a)) > rank(Head(b)) THEN 1
    ELSE localeCompare(Tail(a), Tail(b))

\* Array.prototype.sort with (a, b) => b.date.localeCompare(a.date): stable
RECURSIVE insert(_, _)
insert(x, sorted) ==
    IF sorted = <<>> THEN <<x>>
    ELSE IF localeCompare(x.date, Head(sorted).date) > 0
         THEN <<x>> \o sorted
         ELSE <<Head(sorted)>> \o insert(x, Tail(sorted))

RECURSIVE sort(_)
sort(as) ==
    IF as = <<>> THEN <<>> ELSE insert(as[Len(as)], sort(SubSeq(as, 1, Len(as) - 1)))

sliceAll(as, k) == as

slice(as, k) == SubSeq(as, 1, IF Len(as) < k THEN Len(as) ELSE k)

parseArchivePage(ps) == slice(sort(push(ps)), TOP)

filename(article) ==
    OUTPUT_DIR \o <<"/">> \o article.date \o <<"-">> \o LANGUAGE \o <<".", "m", "d">>

\* the pages an article url may serve
Pages == {WithArticle(Elem("ARTICLE", <<Text(<<"a">>)>>))}

extractArticleContent(page) ==
    IF ~page.parsed \/ page.article = Null THEN Fallback
    ELSE orFallback(limit(cleanUp(htmlToMarkdown("scraper",
             removeFirst(removeFirst(page.article[1], "h1"), "span.s95")))))

\* front matter and content of a written file
fullContent(article, c) ==
    [title |-> article.title, date |-> article.date, language |-> LANGUAGE,
     source |-> article.url, content |-> c]

\* a file an earlier run left in the output directory
Earlier ==
    [f \in {filename([date |-> Day1])} |->
        fullContent([title |-> <<"T">>, date |-> Day1, url |-> BLOG \o <<"/", "a">>],
                    <<"o", "l", "d">>)]

\* no call of the extractor is traced
NoExtractor ==
    /\ impl = "scraper"
    /\ doc = ParseFailed
    /\ element = NoElement
    /\ pc = "none"
    /\ calls = 0
    /\ idx = 1
    /\ markdown = <<>>
    /\ result = <<>>
    /\ cleaned = <<>>
    /\ content = <<>>

exVars == <<impl, doc, element, idx, markdown, pc, result, cleaned, content, calls>>

\* the runs start one after the other
ScraperInit ==
    /\ NoExtractor
    /\ archive \in RunArchives
    /\ files \in {<<>>, Earlier}
    /\ articles = [p \in Runs |-> <<>>]
    /\ step = [p \in Runs |-> IF p = 1 THEN "start" ELSE "waiting"]
    /\ cur = [p \in Runs |-> 0]
    /\ body = [p \in Runs |-> <<>>]
    /\ exitCode = [p \in Runs |-> 0]
    /\ log = [p \in Runs |-> <<>>]

\* a console line
Line(msg, file) == [msg |-> msg, file |-> file]

Logs(p, msg, file) == log' = [log EXCEPT ![p] = Append(log[p], Line(msg, file))]

Goto(p, s) ==
    /\ step' = [step EXCEPT ![p] = s]
    /\ exitCode' = exitCode

Exit1AsZero(p, thrown) ==
    /\ step' = [step EXCEPT ![p] = "exited"]
    /\ exitCode' = exitCode
    /\ Logs(p, thrown, <<>>)

\* the catch of main: console.error and Deno.exit(1)
Exit1(p, thrown) ==
    /\ step' = [step EXCEPT ![p] = "exited"]
    /\ exitCode' = [exitCode EXCEPT ![p] = 1]
    /\ Logs(p, thrown, <<>>)

\* main returns
Exit0(p, msg) ==
    /\ step' = [step EXCEPT ![p] = "exited"]
    /\ exitCode' = exitCode
    /\ Logs(p, msg, <<>>)

\* the article run p is at
article(p) == articles[p][cur[p]]

\* the script is started again once the run before has ended
RunAgain(p) ==
    /\ p > 1
    /\ step[p] = "waiting"
    /\ step[p - 1] = "exited"
    /\ Goto(p, "start")
    /\ UNCHANGED <<exVars, archive, files, articles, cur, body, log>>

\* ensureOutputDir: mkdir succeeds, finds the directory, or throws
EnsureOutputDir(p) ==
    /\ step[p] = "start"
    /\ \E made \in BOOLEAN :
          IF made THEN Goto(p, "archive") /\ log' = log
          ELSE Exit1(p, "Error: mkdir")
    /\ UNCHANGED <<exVars, archive, files, articles, cur, body>>

\* fetchBlogArchive and the test of articles.length
FetchBlogArchive(p) ==
    /\ step[p] = "archive"
    /\ \E response \in {"ok", "not ok", "throws"} :
          IF response = "ok"
          THEN /\ articles' = [articles EXCEPT ![p] = parseArchivePage(archive)]
               /\ IF articles'[p] = <<>>
                  THEN Exit0(p, "No articles found.") /\ cur' = cur
                  ELSE /\ Goto(p, "stat")
                       /\ cur' = [cur EXCEPT ![p] = 1]
                       /\ log' = log
          ELSE Exit1(p, "Error: archive") /\ UNCHANGED <<articles, cur>>
    /\ UNCHANGED <<exVars, archive, files, body>>

\* the for loop of main goes on to the next article or ends
NextArticle(p, msg) ==
    IF cur[p] < Len(articles[p])
    THEN /\ Goto(p, "stat")
         /\ cur' = [cur EXCEPT ![p] = cur[p] + 1]
         /\ Logs(p, msg, filename(article(p)))
    ELSE /\ step' = [step EXCEPT ![p] = "exited"]
         /\ exitCode' = exitCode
         /\ cur' = cur
         /\ log' = [log EXCEPT ![p] =
                       log[p] \o <<Line(msg, filename(article(p))), Line("Done!", <<>>)>>]

StatFindsNone(p) ==
    /\ step[p] = "stat"
    /\ \E failed \in BOOLEAN :
          IF failed THEN Exit1(p, "Error: stat") /\ cur' = cur
          ELSE Goto(p, "fetch") /\ UNCHANGED <<cur, log>>
    /\ UNCHANGED <<exVars, archive, files, articles, body>>

\* generateArticleFile: Deno.stat
Stat(p) ==
    /\ step[p] = "stat"
    /\ \E failed \in BOOLEAN :
          IF failed THEN Exit1(p, "Error: stat") /\ cur' = cur
          ELSE IF filename(article(p)) \in DOMAIN files
               THEN NextArticle(p, "Skipped")
               ELSE Goto(p, "fetch") /\ UNCHANGED <<cur, log>>
    /\ UNCHANGED <<exVars, archive, files, articles, body>>

\* generateArticleFile: fetchArticleContent
FetchArticleContent(p) ==
    /\ step[p] = "fetch"
    /\ \E response \in {"ok", "not ok", "throws"}, page \in Pages :
          body' = [body EXCEPT ![p] =
                      IF response = "ok" THEN extractArticleContent(page) ELSE <<>>]
    /\ Goto(p, "write")
    /\ Logs(p, "Fetching", filename(article(p)))
    /\ UNCHANGED <<exVars, archive, files, articles, cur>>

\* generateArticleFile: Deno.writeTextFile
WriteTextFile(p) ==
    /\ step[p] = "write"
    /\ \E written \in BOOLEAN :
          IF written
          THEN /\ files' = [f \in DOMAIN files \cup {filename(article(p))} |->
                               IF f = filename(article(p))
                               THEN fullContent(article(p), body[p])
                               ELSE files[f]]
               /\ NextArticle(p, "Created")
          ELSE Exit1(p, "Error: write") /\ UNCHANGED <<files, cur>>
    /\ body' = [body EXCEPT ![p] = <<>>]    \* the local ends with the call
    /\ UNCHANGED <<exVars, archive, articles>>

ScraperNext ==
    \/ \E p \in Runs : RunAgain(p)
    \/ \E p \in Runs : EnsureOutputDir(p)
    \/ \E p \in Runs : FetchBlogArchive(p)
    \/ \E p \in Runs : Stat(p)
    \/ \E p \in Runs : FetchArticleContent(p)
    \/ \E p \in Runs : WriteTextFile(p)

ScraperSpec == ScraperInit /\ [][ScraperNext]_vars

\* two runs started together on one output directory: their awaited calls
\* interleave
ConcurrentInit ==
    /\ NoExtractor
    /\ archive \in RunArchives
    /\ files \in {<<>>, Earlier}
    /\ articles = [p \in Runs |-> <<>>]
    /\ step = [p \in Runs |-> IF p <= 2 THEN "start" ELSE "waiting"]
    /\ cur = [p \in Runs |-> 0]
    /\ body = [p \in Runs |-> <<>>]
    /\ exitCode = [p \in Runs |-> 0]
    /\ log = [p \in Runs |-> <<>>]

ConcurrentNext ==
    \/ \E p \in Runs : EnsureOutputDir(p)
    \/ \E p \in Runs : FetchBlogArchive(p)
    \/ \E p \in Runs : Stat(p)
    \/ \E p \in Runs : FetchArticleContent(p)
    \/ \E p \in Runs : WriteTextFile(p)

ConcurrentSpec == ConcurrentInit /\ [][ConcurrentNext]_vars

\* one run up to the parsing of the archive page, long pages among them
ArchiveInit ==
    /\ NoExtractor
    /\ archive \in Archives \cup LongArchives
    /\ files = <<>>
    /\ articles = [p \in Runs |-> <<>>]
    /\ step = [p \in Runs |-> IF p = 1 THEN "start" ELSE "waiting"]
    /\ cur = [p \in Runs |-> 0]
    /\ body = [p \in Runs |-> <<>>]
    /\ exitCode = [p \in Runs |-> 0]
    /\ log = [p \in Runs |-> <<>>]

ArchiveNext ==
    \/ EnsureOutputDir(1)
    \/ FetchBlogArchive(1)

ArchiveSpec == ArchiveInit /\ [][ArchiveNext]_vars

(***************************************************************************)
(* Vocabulary of the properties                                            *)
(***************************************************************************)
Blank(s) == \A i \in 1..Len(s) : IsSpace(s[i])

\* s without its leading and trailing whitespace
Trimmed(s) ==
    IF Blank(s) THEN <<>>
    ELSE LET lo == CHOOSE i \in 1..Len(s) :
                       ~IsSpace(s[i]) /\ \A j \in 1..(i - 1) : IsSpace(s[j])
             hi == CHOOSE i \in 1..Len(s) :
                       ~IsSpace(s[i]) /\ \A j \in (i + 1)..Len(s) : IsSpace(s[j])
         IN SubSeq(s, lo, hi)

\* s with every maximal run of whitespace replaced by one space
CollapsedRuns(s) ==
    LET keep(i) == ~IsSpace(s[i]) \/ i = 1 \/ ~IsSpace(s[i - 1])
        ix == SelectSeq([i \in 1..Len(s) |-> i], keep)
    IN [k \in 1..Len(ix) |-> IF IsSpace(s[ix[k]]) THEN " " ELSE s[ix[k]]]

NonSpace(s) == LET black(c) == ~IsSpace(c) IN SelectSeq(s, black)

IsText(n) == n.nodeType = TEXT_NODE
IsElem(n) == n.nodeType = ELEMENT_NODE
TagOf(n) == toLowerCase(n.tagName)
IsTag(n, tags) == IsElem(n) /\ TagOf(n) \in tags

\* the elements whose children the extractor converts one by one
Recursing(n) ==
    IsElem(n) /\ (TagOf(n) \in {"p", "ul", "ol", "li", "span"} \/ TagOf(n) \notin RuleTags)

\* the nodes a call on n hands to the loop body, at every nesting level
RECURSIVE Visited(_)
Visited(n) ==
    UNION {{n.childNodes[i]} \cup
              (IF Recursing(n.childNodes[i]) THEN Visited(n.childNodes[i]) ELSE {}) :
              i \in 1..Len(n.childNodes)}

\* the loop has handled at least one child; Last is the child handled last and
\* Before the buffer as it was when the loop reached that child
Acted == idx > 1
Last == element.childNodes[idx - 1]
Before == forLoop(impl, SubSeq(element.childNodes, 1, idx - 2), <<>>)

\* the buffer of the running call grew by exactly what Expected says when the
\* child handled last is of the kind, and once the call has returned every
\* visited node of the kind, at every nesting level, has added exactly that
Adds(Kind(_), Expected(_)) ==
    /\ (Acted /\ Kind(Last)) => markdown = Before \o Expected(Last)
    /\ pc = "done" =>
          \A n \in Visited(element) : Kind(n) => NodeMd(impl, n) = Expected(n)

Finished(kids) == pc = "done" /\ element.childNodes = kids

(***************************************************************************)
(* C1  text nodes                                                          *)
(***************************************************************************)
C1_Claimed(n) == CollapsedRuns(Trimmed(n.data))

\* C1 as stated: a text child adds its text trimmed and with every internal
\* run of whitespace collapsed to one space.
C1_TextTrimmedAndCollapsed == Adds(IsText, C1_Claimed)

C1_Actual(n) ==
    IF Blank(n.data) THEN <<>>
    ELSE IF impl = "common" THEN CollapsedRuns(n.data)
    ELSE Trimmed(n.data) \o <<" ">>

\* C1 amended: a whitespace-only text child adds nothing.  Otherwise common.ts
\* adds the text with every run of whitespace, the leading and the trailing
\* one included, replaced by one space (it does not trim), and collapsing
\* that output again changes nothing; haskell-scraper.ts adds the trimmed
\* text followed by one space and leaves internal runs as they are.
C1_TextRule ==
    /\ Adds(IsText, C1_Actual)
    /\ \A n \in Visited(element) :
          (IsText(n) /\ impl = "common") =>
              CollapsedRuns(NodeMd(impl, n)) = NodeMd(impl, n)

C1_Witness ==
    /\ Acted
    /\ IsText(Last)
    /\ Last.data = <<" ", "a", " ", "\n">>
    /\ markdown = (IF impl = "common" THEN <<" ", "a", " ">> ELSE <<"a", " ">>)

(***************************************************************************)
(* C2  headings                                                            *)
(***************************************************************************)
IsHeading(n) == IsTag(n, HeadingTags)

Level(n) ==
    CASE TagOf(n) = "h1" -> 1 [] TagOf(n) = "h2" -> 2
      [] TagOf(n) = "h3" -> 3 [] TagOf(n) = "h4" -> 4

Hashes(n) == [i \in 1..Level(n) |-> "#"]

C2_Claimed(n) == Hashes(n) \o <<" ">> \o textContent(n) \o <<"\n", "\n">>

\* C2 as stated: a heading of level n adds n '#', a space, its flattened text
\* and two newlines, with nothing before the first '#'.
C2_HeadingNoLeadingNewline == Adds(IsHeading, C2_Claimed)

C2_Actual(n) ==
    <<"\n">> \o Hashes(n) \o <<" ">> \o Trimmed(textContent(n)) \o <<"\n", "\n">>

\* C2 amended: a heading of level n adds one newline, n '#', a space, its
\* flattened text with leading and trailing whitespace removed, and two
\* newlines; its children are not converted; <h2>Title</h2> gives
\* "\n## Title\n\n".
C2_HeadingRule ==
    /\ Adds(IsHeading, C2_Actual)
    /\ Finished(<<Elem("H2", <<Text(Title)>>)>>) =>
          result = <<"\n", "#", "#", " ">> \o Title \o <<"\n", "\n">>

C2_Witness ==
    /\ Acted
    /\ IsHeading(Last)
    /\ Last.tagName = "H3"
    /\ Len(Last.childNodes) = 1
    /\ IsTag(Last.childNodes[1], StrongTags)
    /\ markdown = <<"\n", "#", "#", "#", " ", "b", "\n", "\n">>

(***************************************************************************)
(* C3  skipped elements                                                    *)
(***************************************************************************)
IsSkipped(n) == IsTag(n, SkipTags)

\* n without the img, video, script and style elements below it
RECURSIVE Stripped(_)
Stripped(n) ==
    LET kept == SelectSeq(n.childNodes, LAMBDA c : ~IsSkipped(c))
    IN [n EXCEPT !.childNodes = [i \in 1..Len(kept) |-> Stripped(kept[i])]]

\* C3 as stated: an img, video, script or style element adds nothing wherever
\* it stands, inside a heading, anchor, strong, em, code or pre included, and
\* what its siblings add is kept in order: the result is the result for the
\* document without these elements.
C3_SkippedAddNothingAnywhere ==
    pc = "done" => result = htmlToMarkdown(impl, Stripped(element))

(***************************************************************************)
(* C4  elements without recognized content                                 *)
(***************************************************************************)
C4_Tags ==
    {"p", "li", "ul", "ol", "strong", "b", "em", "i", "code", "a", "span"}

\* an element of the tags C4 lists, or of an unknown tag, that has no children
\* or only skipped elements as children
IsHollow(n) ==
    /\ IsElem(n)
    /\ TagOf(n) \in C4_Tags \/ TagOf(n) \notin RuleTags
    /\ \A i \in 1..Len(n.childNodes) : IsSkipped(n.childNodes[i])

Empty(n) == <<>>

\* C4 as stated: an element without recognized content adds the empty string,
\* whatever its tag.
C4_HollowAddsNothing == Adds(IsHollow, Empty)

C4_Actual(n) ==
    LET tag == TagOf(n)
        flat == Trimmed(textContent(n))
    IN CASE tag \in {"ul", "ol"} -> <<"\n">>
         [] tag = "li" -> <<"-", " ", "\n">>
         [] tag \in {"strong", "b"} -> <<"*", "*">> \o flat \o <<"*", "*">>
         [] tag \in {"em", "i"} -> <<"*">> \o flat \o <<"*">>
         [] tag = "code" -> <<Backtick>> \o flat \o <<Backtick>>
         [] tag = "a" -> <<"[">> \o flat \o <<"]", "(">> \o getHref(n) \o <<")">>
         [] OTHER -> <<>>

\* C4 amended: an element without recognized content adds the empty string
\* when it is a p, a span or an element of an unknown tag.  A ul or ol adds
\* one newline, a li adds "- " and a newline, and strong/b, em/i, code and a
\* add their markers around the trimmed flattened text, which is empty
\* unless a skipped child holds text ("****", "**", two grave accents,
\* "[](href)").  No case fails.
C4_HollowRule == Adds(IsHollow, C4_Actual)

C4_Witness ==
    /\ Acted
    /\ IsHollow(Last)
    /\ Last.tagName = "LI"
    /\ Len(Last.childNodes) = 2
    /\ markdown = <<"-", " ", "\n">>

(***************************************************************************)
(* C5  lists                                                               *)
(***************************************************************************)
IsList(n) == IsTag(n, ListTags)
IsItem(n) == IsTag(n, {"li"})

\* what the children of n add, one after the other in child order
RECURSIVE InOrder(_, _)
InOrder(n, k) ==
    IF k = 0 THEN <<>> ELSE InOrder(n, k - 1) \o NodeMd(impl, n.childNodes[k])

C5_List(n) == <<"\n">> \o InOrder(n, Len(n.childNodes))
C5_Item(n) == <<"-", " ">> \o Trimmed(htmlToMarkdown(impl, n)) \o <<"\n">>

\* C5: a ul or ol adds one newline and then what its children add, in
\* document order; a li adds "- ", the trimmed extraction of the item and one
\* newline; <ul><li>A</li><li>B</li></ul> gives "\n- A\n- B\n".
C5_ListRule ==
    /\ Adds(IsList, C5_List)
    /\ Adds(IsItem, C5_Item)
    /\ Finished(<<Elem("UL", <<Elem("LI", <<Text(<<"A">>)>>),
                               Elem("LI", <<Text(<<"B">>)>>)>>)>>) =>
          result = <<"\n", "-", " ", "A", "\n", "-", " ", "B", "\n">>

C5_Witness ==
    /\ Finished(<<Elem("UL", <<Elem("LI", <<Text(<<"A">>)>>),
                               Elem("LI", <<Text(<<"B">>)>>)>>)>>)
    /\ result = <<"\n", "-", " ", "A", "\n", "-", " ", "B", "\n">>

(***************************************************************************)
(* C6  anchors                                                             *)
(***************************************************************************)
IsAnchor(n) == IsTag(n, {"a"})

C6_Link(n) ==
    <<"[">> \o Trimmed(textContent(n)) \o <<"]", "(">>
        \o (IF n.href = Null THEN <<>> ELSE n.href[1]) \o <<")">>

\* C6: an anchor adds "[", its trimmed flattened text, "](", the href and ")",
\* nested markup is not converted; a missing href counts as the empty string:
\* <a>Click</a> gives "[Click]()", <a href="/x">Click</a> gives "[Click](/x)".
C6_AnchorRule ==
    /\ Adds(IsAnchor, C6_Link)
    /\ Finished(<<Anchor(Null, <<Text(Click)>>)>>) =>
          result = <<"[">> \o Click \o <<"]", "(", ")">>
    /\ Finished(<<Anchor(Some(<<"/", "x">>), <<Text(Click)>>)>>) =>
          result = <<"[">> \o Click \o <<"]", "(", "/", "x", ")">>

C6_Witness ==
    /\ Finished(<<Anchor(Null, <<Text(Click)>>)>>)
    /\ result = <<"[">> \o Click \o <<"]", "(", ")">>

(***************************************************************************)
(* C7  paragraphs                                                          *)
(***************************************************************************)
IsParagraph(n) == IsTag(n, {"p"})

C7_Paragraph(n) ==
    LET inner == Trimmed(InOrder(n, Len(n.childNodes)))
    IN IF inner = <<>> THEN <<>> ELSE inner \o <<"\n", "\n">>

\* C7: a p adds the trimmed extraction of its children followed by exactly
\* two newlines when that is not empty, and nothing when it is empty.
C7_ParagraphRule == Adds(IsParagraph, C7_Paragraph)

C7_Witness ==
    /\ Acted
    /\ IsParagraph(Last)
    /\ Last.childNodes = <<Text(<<" ", "b", " ">>), Elem("IMG", <<>>), Text(<<" ">>)>>
    /\ markdown = <<"b", "\n", "\n">>

(***************************************************************************)
(* C8  preformatted blocks                                                 *)
(***************************************************************************)
IsPre(n) == IsTag(n, {"pre"})

Fence == <<Backtick, Backtick, Backtick>>

C8_Claimed(n) == Fence \o <<"\n">> \o textContent(n) \o <<"\n">> \o Fence \o <<"\n">>

\* C8 as stated: a pre adds the fence, a newline, its flattened text, a
\* newline, the fence and one newline, with nothing before the opening fence.
C8_PreNoLeadingNewline == Adds(IsPre, C8_Claimed)

C8_Actual(n) ==
    <<"\n">> \o Fence \o <<"\n">> \o Trimmed(textContent(n)) \o <<"\n">>
        \o Fence \o <<"\n", "\n">>

\* C8 amended: a pre adds one newline, the fence, a newline, its flattened
\* text with leading and trailing whitespace removed, a newline, the fence
\* and two newlines.
C8_PreRule == Adds(IsPre, C8_Actual)

C8_Witness ==
    /\ Finished(<<Elem("PRE", <<Elem("CODE", <<Text(<<"a", "\n", "b">>)>>)>>)>>)
    /\ result = <<"\n">> \o Fence \o <<"\n", "a", "\n", "b", "\n">> \o Fence
                    \o <<"\n", "\n">>

(***************************************************************************)
(* C9  strong, em, code                                                    *)
(***************************************************************************)
IsInline(n) == IsTag(n, StrongTags \cup EmTags \cup {"code"})

Marker(n) ==
    CASE TagOf(n) \in {"strong", "b"} -> <<"*", "*">>
      [] TagOf(n) \in {"em", "i"} -> <<"*">>
      [] TagOf(n) = "code" -> <<Backtick>>

C9_Claimed(n) == Marker(n) \o textContent(n) \o Marker(n)

\* C9 as stated: strong/b, em/i and code add "**", "*" and the grave accent
\* around the flattened text T of the element.
C9_InlineUntrimmed == Adds(IsInline, C9_Claimed)

C9_Actual(n) == Marker(n) \o Trimmed(textContent(n)) \o Marker(n)

\* C9 amended: strong/b, em/i and code add "**", "*" and the grave accent
\* around the flattened text with its leading and trailing whitespace
\* removed; nested markup inside the element is not converted.
C9_InlineRule == Adds(IsInline, C9_Actual)

C9_Witness ==
    /\ Acted
    /\ IsInline(Last)
    /\ Last.tagName = "EM"
    /\ Last.childNodes = <<Elem("STRONG", <<Text(<<" ", "b", " ">>)>>)>>
    /\ markdown = <<"*", "b", "*">>

(***************************************************************************)
(* C10  span and unknown tags                                              *)
(***************************************************************************)
IsTransparent(n) == IsElem(n) /\ (TagOf(n) = "span" \/ TagOf(n) \notin RuleTags)

C10_Same(n) == htmlToMarkdown(impl, n)

OnlyText(n) == \A i \in 1..Len(n.childNodes) : IsText(n.childNodes[i])

\* C10: a span or an element of a tag outside the rule list adds exactly the
\* extraction of its children, nothing more and nothing less, so none of the
\* text below it is dropped: when its children are text nodes, the characters
\* it adds, whitespace apart, are those of its flattened text.
C10_TransparentRule ==
    /\ Adds(IsTransparent, C10_Same)
    /\ Adds(IsTransparent, LAMBDA n : InOrder(n, Len(n.childNodes)))
    /\ pc = "done" =>
          \A n \in Visited(element) :
              (IsTransparent(n) /\ OnlyText(n)) =>
                  NonSpace(NodeMd(impl, n)) = NonSpace(textContent(n))

C10_Witness ==
    /\ Acted
    /\ Last.tagName = "BLOCKQUOTE"
    /\ Last.childNodes = <<Text(<<"a">>), Elem("IMG", <<>>), Text(<<" ", "b", " ">>)>>
    /\ markdown = <<"a", " ", "b", " ">>

(***************************************************************************)
(* C11  missing text content                                               *)
(***************************************************************************)
IsTextless(n) ==
    n.noText /\ (IsText(n) \/ IsHeading(n) \/ IsInline(n) \/ IsPre(n) \/ IsAnchor(n))

\* the output of the rule with an empty text part
C11_Claimed(n) ==
    IF IsText(n) THEN <<>>
    ELSE IF IsHeading(n) THEN <<"\n">> \o Hashes(n) \o <<" ", "\n", "\n">>
    ELSE IF IsInline(n) THEN Marker(n) \o Marker(n)
    ELSE IF IsPre(n) THEN
        <<"\n">> \o Fence \o <<"\n", "\n">> \o Fence \o <<"\n", "\n">>
    ELSE <<"[", "]", "(">> \o getHref(n) \o <<")">>

BlankStretch(s, i, e) ==
    /\ i + 2 <= e
    /\ s[i] = "\n"
    /\ s[e] = "\n"
    /\ \A m \in (i + 1)..(e - 1) : IsSpace(s[m])

Newlines(s) == {i \in 1..Len(s) : s[i] = "\n"}

NoBlankStretch(s) ==
    \A i \in Newlines(s) : \A e \in Newlines(s) : ~BlankStretch(s, i, e)

NoThreeNewlines(s) ==
    \A i \in Newlines(s) : ~({i + 1, i + 2} \subseteq Newlines(s))

NoOuterSpace(s) == s = <<>> \/ (~IsSpace(s[1]) /\ ~IsSpace(s[Len(s)]))

\* C12: after the clean-up and before the truncation the string holds no run
\* of three or more newlines and no whitespace-only stretch between two
\* newlines other than the blank line "\n\n", and it neither starts nor ends
\* with whitespace; the clean-up touches whitespace only.
C12_CleanedRule ==
    pc = "cleaned" =>
        /\ NoThreeNewlines(cleaned)
        /\ NoBlankStretch(cleaned)
        /\ NoOuterSpace(cleaned)
        /\ NonSpace(cleaned) = NonSpace(result)

C12_Witness ==
    /\ pc = "cleaned"
    /\ ~NoThreeNewlines(result)
    /\ ~NoBlankStretch(cleaned \o <<"\n">> \o result)
    /\ Len(cleaned) > 8

(***************************************************************************)
(* C13  the length limit                                                   *)
(***************************************************************************)
\* C13: a cleaned result of more than 3000 characters becomes its first 3000
\* characters followed by the truncation notice, 3080 characters in all; a
\* cleaned result of at most 3000 characters stays as it is.
C13_LimitRule ==
    pc \in {"limited", "returned"} =>
        LET before == cleanUp(result)
        IN IF Len(before) > 3000
           THEN /\ cleaned = SubSeq(before, 1, 3000) \o Notice
                /\ Len(cleaned) = 3080
                /\ pc = "returned" => content = cleaned
           ELSE cleaned = before

C13_Witness ==
    /\ pc = "returned"
    /\ Len(result) = 5001
    /\ Len(content) = 3080
    /\ content[3000] = "a"
    /\ SubSeq(content, 3001, 3005) = <<"\n", "\n", ".", ".", ".">>

(***************************************************************************)
(* C14  the fallback sentence                                              *)
(***************************************************************************)
\* C14: extractArticleContent returns the fallback sentence when the document
\* cannot be parsed, when it has no article element and when the cleaned
\* extraction is empty, as for an article holding a single img; it never
\* returns the empty string.
C14_FallbackRule ==
    pc = "returned" =>
        /\ content # <<>>
        /\ (~doc.parsed \/ doc.article = Null \/ Blank(result)) =>
              /\ content = Fallback
              /\ Len(content) = 74
        /\ doc = WithArticle(Elem("ARTICLE", <<Elem("IMG", <<>>)>>)) =>
              SubSeq(content, 1, 21) =
                  <<"C", "o", "n", "t", "e", "n", "t", " ", "n", "o", "t", " ",
                    "a", "v", "a", "i", "l", "a", "b", "l", "e">>

C14_Witness ==
    /\ pc = "returned"
    /\ doc = WithArticle(Elem("ARTICLE", <<Elem("IMG", <<>>)>>))
    /\ calls = 1
    /\ content = Fallback

(***************************************************************************)
(* C15  the end-to-end scenario                                            *)
(***************************************************************************)
HelloWorld == Elem("P", <<Text(Hello), Elem("STRONG", <<Text(World)>>)>>)

HelloWorldArticle ==
    Elem("ARTICLE", <<Elem("H1", <<Text(Ignore)>>), Span95(<<Text(Ignore)>>), HelloWorld>>)

HelloWorldMd ==
    <<"H", "e", "l", "l", "o", " ", "*", "*", "W", "o", "r", "l", "d", "*", "*",
      "\n", "\n">>

\* C15: for <article><h1>Ignore</h1><span class="s95">Ignore</span><p>Hello
\* <strong>World</strong></p></article> the caller strips the h1 and the span
\* and the extraction yields "Hello **World**\n\n", in either copy.
C15_ScenarioRule ==
    /\ (doc = WithArticle(HelloWorldArticle) /\ pc # "parse") =>
          element = Elem("ARTICLE", <<HelloWorld>>)
    /\ Finished(<<HelloWorld>>) => result = HelloWorldMd

C15_Witness ==
    /\ doc = WithArticle(HelloWorldArticle)
    /\ Finished(<<HelloWorld>>)
    /\ result = HelloWorldMd

(***************************************************************************)
(* C16  the buffer only grows                                              *)
(***************************************************************************)
IsPrefix(s, t) == Len(s) <= Len(t) /\ SubSeq(t, 1, Len(s)) = s

\* C16: while a call is running every step leaves the earlier value of the
\* buffer as a prefix of the new one, and the call returns the buffer.
C16_AppendOnly ==
    [][pc = "loop" => /\ IsPrefix(markdown, markdown')
                      /\ pc' = "done" => result' = markdown]_vars

C16_Witness ==
    /\ pc = "loop"
    /\ idx = 3
    /\ Before # <<>>
    /\ Len(markdown) > Len(Before)

(***************************************************************************)
(* C17  document order                                                     *)
(***************************************************************************)
\* C17: the buffer holds the contributions of the children handled so far in
\* document order, the result is the concatenation of the contributions of
\* all children in document order, and so is the result of every recursive
\* call, at every nesting level.
C17_OrderRule ==
    /\ pc = "loop" => markdown = InOrder(element, idx - 1)
    /\ pc = "done" =>
          /\ result = InOrder(element, Len(element.childNodes))
          /\ \A n \in Visited(element) :
                Recursing(n) =>
                    htmlToMarkdown(impl, n) = InOrder(n, Len(n.childNodes))

\* two children adding different text below a nested element, and two at the top
C17_Witness ==
    /\ pc = "done"
    /\ Len(element.childNodes) >= 2
    /\ NodeMd(impl, element.childNodes[1]) # NodeMd(impl, element.childNodes[2])
    /\ \E n \in Visited(element) :
          /\ Recursing(n)
          /\ Len(n.childNodes) >= 2
          /\ NodeMd(impl, n.childNodes[1]) # <<>>
          /\ NodeMd(impl, n.childNodes[2]) # <<>>
          /\ NodeMd(impl, n.childNodes[1]) # NodeMd(impl, n.childNodes[2])

(***************************************************************************)
(* C18  a pure function of the tree                                        *)
(***************************************************************************)
\* C18: the result of every call, the first of a process or a later one made
\* after calls on other trees, is the one value the input tree determines, so
\* a repeated call on the same tree returns what the first returned; a running
\* call changes neither the tree nor anything but its own buffer.
C18_PureRule ==
    /\ [](pc = "done" => result = htmlToMarkdown(impl, element))
    /\ [][pc = "loop" => /\ element' = element
                         /\ doc' = doc
                         /\ impl' = impl
                         /\ pc' = "loop" => result' = result]_vars
    /\ [][(pc = "done" /\ pc' = "loop" /\ element' = element)
              => markdown' = <<>> /\ result' = result]_vars

C18_Witness ==
    /\ pc = "done"
    /\ calls = MaxCalls
    /\ element \notin Again
    /\ result # <<>>

(***************************************************************************)
(* C19  termination                                                        *)
(***************************************************************************)
\* C19: every call on a finite tree returns: a running call always has a next
\* step, recursing into the children where the rule says so, and it reaches
\* its return.
C19_Terminates ==
    /\ [](pc = "loop" => ENABLED Step)
    /\ (pc = "loop") ~> (pc = "done")

\* a call that returned after recursing two levels below a child
C19_Witness ==
    /\ pc = "done"
    /\ \E n \in Visited(element) :
          /\ Recursing(n)
          /\ \E m \in Visited(n) : Recursing(m) /\ m.childNodes # <<>>

(***************************************************************************)
(* C20  the names of the written files                                     *)
(***************************************************************************)
Digits == {"0", "1", "2", "3", "4", "5", "6", "7", "8", "9"}
LowerCase ==
    {"a", "b", "c", "d", "e", "f", "g", "h", "i", "j", "k", "l", "m", "n", "o",
     "p", "q", "r", "s", "t", "u", "v", "w", "x", "y", "z"}

\* ^[0-9]{4}-[0-9]{2}-[0-9]{2}-[a-z]+\.md$
IsArticleName(s) ==
    /\ Len(s) >= 15
    /\ \A k \in {1, 2, 3, 4, 6, 7, 9, 10} : s[k] \in Digits
    /\ \A k \in {5, 8, 11} : s[k] = "-"
    /\ \A k \in 12..(Len(s) - 3) : s[k] \in LowerCase
    /\ SubSeq(s, Len(s) - 2, Len(s)) = <<".", "m", "d">>

\* the part of a path after its last slash
BaseName(path) ==
    LET slashes == {k \in 1..Len(path) : path[k] = "/"}
    IN SubSeq(path, (CHOOSE k \in slashes : \A m \in slashes : m <= k) + 1, Len(path))

\* the articles the runs have taken from the archive
Taken == UNION {{articles[p][k] : k \in 1..Len(articles[p])} : p \in Runs}

WrittenAs(a) ==
    /\ filename(a) \in DOMAIN files
    /\ files[filename(a)] # Earlier[filename([date |-> Day1])]

\* C20: every file the run has written is in the output directory under
\* the name <date>-haskell.md with <date> of the form YYYY-MM-DD.
C20_NamedByIsoDate ==
    \A a \in Taken :
        WrittenAs(a) =>
            /\ filename(a) = OUTPUT_DIR \o <<"/">> \o BaseName(filename(a))
            /\ IsArticleName(BaseName(filename(a)))

(***************************************************************************)
(* C26  what parseArchivePage returns                                      *)
(***************************************************************************)
\* the paragraph has a link and a time with non-empty href, title and datetime
HasAll(e) ==
    /\ e.link # Null
    /\ e.time # Null
    /\ e.link[1].href # <<>>
    /\ ~Blank(e.link[1].text)
    /\ e.time[1] # <<>>

\* fetchBlogArchive has returned to run p
Parsed(p) == step[p] = "stat" \/ (step[p] = "exited" /\ exitCode[p] = 0)

\* how often the archive page offers the article and how often it was taken
Offered(a) ==
    Cardinality({k \in 1..Len(archive) :
                    HasAll(archive[k]) /\ ArticleOf(archive[k]) = a})
TakenTimes(p, a) == Cardinality({k \in 1..Len(articles[p]) : articles[p][k] = a})

Min(a, b) == IF a < b THEN a ELSE b

\* C26: parseArchivePage returns at most 10 articles, newest first, all of
\* them entries with link, time, href, title and datetime, as many as there
\* are such entries up to 10, and no entry left out is newer than one returned.
C26_TopTen ==
    Parsed(1) =>
        LET r == articles[1]
            offered == {ArticleOf(archive[k]) :
                           k \in {m \in 1..Len(archive) : HasAll(archive[m])}}
        IN /\ Len(r) <= 10
           /\ Len(r) = Min(10, Cardinality({k \in 1..Len(archive) : HasAll(archive[k])}))
           /\ \A i \in 1..Len(r) : \A j \in i..Len(r) :
                 localeCompare(r[i].date, r[j].date) >= 0
           /\ \A i \in 1..Len(r) : TakenTimes(1, r[i]) <= Offered(r[i])
           /\ \A a \in offered :
                 TakenTimes(1, a) < Offered(a) =>
                     \A i \in 1..Len(r) : localeCompare(r[i].date, a.date) >= 0

\* a page of a dozen entries out of order, one of them without a time
C26_Witness ==
    /\ Parsed(1)
    /\ Len(archive) = 12
    /\ Len(articles[1]) = 10
    /\ \E k \in 1..Len(archive) : ~HasAll(archive[k])
    /\ articles[1][1].date = March(12)

(***************************************************************************)
(* C21  running the scraper again                                          *)
(***************************************************************************)
\* the lines of run p about the file
Says(p, msgs, f) == {k \in 1..Len(log[p]) : log[p][k].msg \in msgs /\ log[p][k].file = f}

\* run p has ended without an error
Completed(p) == step[p] = "exited" /\ exitCode[p] = 0

\* run p adds a line with the message in this step
Adding(p, msg) ==
    /\ Len(log'[p]) > Len(log[p])
    /\ log'[p][Len(log[p]) + 1].msg = msg

Current == {extractArticleContent(page) : page \in Pages}

\* the file was in the output directory before the first run
Older(f) == f \in DOMAIN files /\ \A p \in Runs : Says(p, {"Created"}, f) = {}

\* the file is that of the article
FileOf(f, a) ==
    /\ f \in DOMAIN files
    /\ files[f].title = a.title
    /\ files[f].source = a.url
    /\ files[f].date = a.date

\* C22: when a run has ended without an error, the file of each of its
\* articles that was there before holds the content the source serves now.
C22_UpdatesChanged ==
    \A p \in Runs :
        Completed(p) =>
            \A k \in 1..Len(articles[p]) :
                LET f == filename(articles[p][k])
                IN (Older(f) /\ FileOf(f, articles[p][k])) =>
                       files[f].content \in Current

(***************************************************************************)
(* C23  going on after a failure                                           *)
(***************************************************************************)
\* C23: a run that has entered the loop over its articles ends only after
\* it has handled the last of them, whatever failed on the way.
C23_HandlesAll ==
    \A p \in Runs :
        (step[p] = "exited" /\ articles[p] # <<>>) => cur[p] = Len(articles[p])

(***************************************************************************)
(* C24  the exit code                                                      *)
(***************************************************************************)
\* the messages of the failures of run p
Thrown(p) == {log[p][k].msg : k \in 1..Len(log[p])} \ {"Skipped", "Created", "Fetching",
                                                      "Done!", "No articles found."}

ReportsDone(p) == \E k \in 1..Len(log[p]) : log[p][k].msg = "Done!"

C24_Claimed(p) ==
    step[p] = "exited" =>
        /\ exitCode[p] = 1 <=>
              Thrown(p) \cap {"Error: mkdir", "Error: archive", "Error: write"} # {}
        /\ exitCode[p] = 1 => ~ReportsDone(p)
        /\ exitCode[p] \in {0, 1}

\* the claim as stated: the exit code is 1 exactly when the directory could
\* not be made, the archive fetch failed or a write failed
C24_ExitOneOnListedFailures == \A p \in Runs : C24_Claimed(p)

C24_Actual(p) ==
    step[p] = "exited" =>
        /\ exitCode[p] = 1 <=>
              Thrown(p) \cap {"Error: mkdir", "Error: archive", "Error: stat",
                              "Error: write"} # {}
        /\ exitCode[p] = 1 => ~ReportsDone(p)
        /\ exitCode[p] = 0 =>
              /\ Thrown(p) = {}
              /\ ReportsDone(p) \/ articles[p] = <<>>
        /\ exitCode[p] \in {0, 1}

\* C24: a run ends with exit code 1, without reporting completion, exactly
\* when the directory could not be made, the archive fetch failed, an
\* existence check failed with an error other than not-found, or a write
\* failed; every other run, one whose content fetch failed included, ends
\* with exit code 0.
C24_ExitCodeRule == \A p \in Runs : C24_Actual(p)

\* a run that ended with 0 after a failed content fetch, and one that ended
\* with 1 after a failed existence check
C24_Witness ==
    /\ Completed(1)
    /\ \E f \in DOMAIN files : Says(1, {"Created"}, f) # {} /\ files[f].content = <<>>
    /\ step[2] = "exited"
    /\ exitCode[2] = 1
    /\ "Error: stat" \in Thrown(2)

(***************************************************************************)
(* C25  articles of the same day                                           *)
(***************************************************************************)
\* C25: when a run has ended without an error, each of two distinct articles
\* of the same date that it took from the archive has a file of its own.
C25_SameDayKept ==
    \A p \in Runs :
        Completed(p) =>
            \A i \in 1..Len(articles[p]) : \A j \in 1..Len(articles[p]) :
                (/\ articles[p][i] # articles[p][j]
                 /\ articles[p][i].date = articles[p][j].date)
                    => \E f \in DOMAIN files : FileOf(f, articles[p][i])

(***************************************************************************)
(* C28  the body of a written file                                         *)
(***************************************************************************)
\* C28: the body of every file a run has created is not empty.
C28_BodyNotEmpty ==
    \A f \in DOMAIN files :
        (\E p \in Runs : Says(p, {"Created"}, f) # {}) => files[f].content # <<>>

(***************************************************************************)
(* C30  two runs at once                                                   *)
(***************************************************************************)
\* C30: no file is created more than once, by the same run or by two.
C30_WrittenOnce ==
    \A f \in DOMAIN files :
        Cardinality(Says(1, {"Created"}, f)) + Cardinality(Says(2, {"Created"}, f)) <= 1

(***************************************************************************)
(* C27  what the caller strips                                             *)
(***************************************************************************)
\* the places of the nodes below n: the child numbers leading to each
RECURSIVE Paths(_)
Paths(n) ==
    UNION {{<<i>>} \cup {<<i>> \o q : q \in Paths(n.childNodes[i])} :
              i \in 1..Len(n.childNodes)}

RECURSIVE At(_, _)
At(n, path) == IF path = <<>> THEN n ELSE At(n.childNodes[Head(path)], Tail(path))

\* document order: a node comes before its descendants and its later siblings
RECURSIVE Precedes(_, _)
Precedes(p, q) ==
    IF p = <<>> THEN TRUE
    ELSE IF q = <<>> THEN FALSE
    ELSE \/ Head(p) < Head(q)
         \/ Head(p) = Head(q) /\ Precedes(Tail(p), Tail(q))

IsH1(n) == IsTag(n, {"h1"})
IsS95(n) == IsTag(n, {"span"}) /\ n.className = "s95"

\* the place of the first node of the kind in document order, if there is one
First(n, Kind(_)) ==
    LET found == {p \in Paths(n) : Kind(At(n, p))}
    IN IF found = {} THEN Null
       ELSE Some(CHOOSE p \in found : \A q \in found : Precedes(p, q))

\* the tree without the node at the place
RECURSIVE Without(_, _)
Without(n, path) ==
    IF Len(path) = 1
    THEN [n EXCEPT !.childNodes =
             SubSeq(@, 1, path[1] - 1) \o SubSeq(@, path[1] + 1, Len(@))]
    ELSE [n EXCEPT !.childNodes[Head(path)] = Without(@, Tail(path))]

Drop(n, place) == IF place = Null THEN n ELSE Without(n, place[1])

\* the article without its first h1 and without its first span.s95
C27_Claimed(a) ==
    LET h == First(a, IsH1)
        m == First(a, IsS95)
    IN IF h # Null /\ m # Null /\ Precedes(h[1], m[1])
       THEN Drop(Drop(a, IF startsWith(m[1], h[1]) THEN Null ELSE m), h)
       ELSE Drop(Drop(a, h), m)

\* extractArticleContent has taken the article and stripped it
Stripping == impl = "scraper" /\ pc \notin {"parse", "none"} /\ doc.article # Null

\* the claim as stated: the extractor's input is the article without its
\* first h1 and its first span.s95, and nothing else is gone
C27_StripsFirstOfEach == Stripping => element = C27_Claimed(doc.article[1])

\* the article without its first h1 and, of what is left, the first span.s95
C27_Actual(a) ==
    LET rest == Drop(a, First(a, IsH1))
    IN Drop(rest, First(rest, IsS95))

\* C27: the extractor's input is the article without its first h1 in
\* document order, at any depth, and without the first span.s95 of what is
\* left; when the first span.s95 is inside that h1 the next one goes too.
C27_StripRule == Stripping => element = C27_Actual(doc.article[1])

\* an h1 below a later element and a span.s95 inside a paragraph were removed
\* and the second h1 stayed
C27_Witness ==
    /\ Stripping
    /\ pc = "done"
    /\ First(doc.article[1], IsH1) = Some(<<2, 2>>)
    /\ First(doc.article[1], IsS95) = Some(<<1, 1>>)
    /\ First(element, IsH1) = Some(<<3>>)
    /\ First(element, IsS95) = Null

(***************************************************************************)
(* C29  newlines in the returned string                                    *)
(***************************************************************************)
\* C29: what extractArticleContent returns holds no run of three newlines.
C29_NoThreeNewlinesReturned == pc = "returned" => NoThreeNewlines(content)

====
